---- MODULE Spec2Model ----
(***************************************************************************)
(* Model of the two request handlers of src/processor/app.py: index        *)
(* (text search) and neighbors (exemplar search).  One request runs at a   *)
(* time; every statement that calls the encoder or the database driver is  *)
(* one step that either succeeds or raises.  The SQL statements are        *)
(* modelled by what they compute over the rows of image_embeddings.        *)
(***************************************************************************)
EXTENDS Integers, Sequences, FiniteSets, TLC

\* ---------------------------------------------------------------- bounds
MaxRows == 32          \* largest number of rows of image_embeddings
MaxLen == 2            \* longest raw text of the q parameter
MaxLeaked == 2         \* a request starts only below this many open connections

\* ------------------------------------------------------------- constants
LIMIT == 30            \* LIMIT 30 of both nearest-neighbour statements

None == <<>>           \* Python None / empty str / empty list
Chars == {" ", "a"}
QueryVectors == {<<1, 0>>, <<-1, 2>>}

VARIABLES store, pc, mode, q, query, file_name, text_embedding, embedding_list,
          row, embedding, curRows, results, images, conn, cur, openConns,
          calls, outcome

vars == <<store, pc, mode, q, query, file_name, text_embedding, embedding_list,
          row, embedding, curRows, results, images, conn, cur, openConns,
          calls, outcome>>

locals == <<q, query, file_name, text_embedding, embedding_list, row, embedding,
            curRows, results, images>>

\* ------------------------------------------------------ the stored table
StoreOf(n, dup) ==
  [i \in 1..n |-> [file_name |-> IF dup THEN (i + 1) \div 2 ELSE i,
                   embedding |-> <<(i % 5) - 2, (i % 3) - 1>>]]

Stores == {StoreOf(n, dup) : n \in 0..MaxRows, dup \in BOOLEAN}

ExemplarNames == {1, 2, LIMIT + 1, MaxRows + 1}

RECURSIVE Texts(_)
Texts(n) == IF n = 0 THEN {<<>>}
            ELSE Texts(n - 1) \cup
                 {Append(t, c) : t \in {u \in Texts(n - 1) : Len(u) = n - 1}, c \in Chars}

\* ------------------------------------------------------- pure operations
\* str.strip(): drop leading and trailing whitespace
RECURSIVE LStrip(_)
LStrip(s) == IF s # <<>> /\ Head(s) = " " THEN LStrip(Tail(s)) ELSE s

RECURSIVE RStrip(_)
RStrip(s) == IF s # <<>> /\ s[Len(s)] = " " THEN RStrip(SubSeq(s, 1, Len(s) - 1)) ELSE s

StripMut(s) == s
Strip(s) == RStrip(LStrip(s))

\* Python truth value of a str / list / None
Truthy(x) == x # None

\* the <#> operator of the store: negative inner product
Distance(e, v) == 0 - (e[1] * v[1] + e[2] * v[2])

\* WHERE file_name != %s : the indices of the rows that qualify
WhereClauseMut(rows, name) == 1..Len(rows)
WhereClause(rows, name) == {i \in 1..Len(rows) : rows[i].file_name # name}

\* ORDER BY distance ASC : row i comes before row j.  Rows of equal distance
\* come in an order the store chooses (tie).
OrderBy(d, tie, i, j) ==
  d[i] < d[j] \/ (d[i] = d[j] /\ IF tie = "asc" THEN i < j ELSE i > j)

\* LIMIT 30 : number of rows returned out of n qualifying rows
LimitMut(n) == n
Limit(n) == IF n < LIMIT THEN n ELSE LIMIT

\* SELECT file_name, embedding <#> v AS distance ... over the rows E
Select(rows, E, v, tie) ==
  LET d == [i \in 1..Len(rows) |-> Distance(rows[i].embedding, v)]
      rank == [i \in E |-> Cardinality({j \in E : OrderBy(d, tie, j, i)}) + 1]
  IN [p \in 1..Limit(Cardinality(E)) |->
        LET i == CHOOSE k \in E : rank[k] = p
        IN <<rows[i].file_name, d[i]>>]

IndexSQL(rows, v, tie) == Select(rows, 1..Len(rows), v, tie)

NeighborsSQL(rows, v, name, tie) == Select(rows, WhereClause(rows, name), v, tie)

\* SELECT embedding ... WHERE file_name = %s LIMIT 1 : the rows it may return
LookupSQLMut(rows, name) == {<<rows[i].embedding>> : i \in 1..Len(rows)}
LookupSQL(rows, name) == {<<rows[i].embedding>> : i \in {k \in 1..Len(rows) : rows[k].file_name = name}}

\* [row[0] for row in results]
FirstColumnMut(rs) == [p \in 1..Len(rs) |-> rs[Len(rs) + 1 - p][1]]
FirstColumn(rs) == [p \in 1..Len(rs) |-> rs[p][1]]

Call(op, ok) == [op |-> op, ok |-> ok]

\* ------------------------------------------------------------------ Init
Init ==
  /\ store \in Stores
  /\ pc = "idle"
  /\ mode = "none"
  /\ q = None /\ query = None /\ file_name = 0
  /\ text_embedding = None /\ embedding_list = None
  /\ row = None /\ embedding = None
  /\ curRows = <<>> /\ results = <<>> /\ images = <<>>
  /\ conn = "unbound" /\ cur = "unbound"
  /\ openConns = 0
  /\ calls = <<>>
  /\ outcome = "pending"

\* ------------------------------------------------- driver calls (shared)
\* psycopg2.connect(SUPABASE_DB_URL)
Connect(at, next, exc) ==
  /\ pc = at
  /\ \E ok \in BOOLEAN :
       /\ calls' = Append(calls, Call("connect", ok))
       /\ IF ok
          THEN conn' = "open" /\ openConns' = openConns + 1 /\ pc' = next
          ELSE pc' = exc /\ UNCHANGED <<conn, openConns>>
  /\ UNCHANGED <<store, mode, locals, cur, outcome>>

\* conn.cursor()
Cursor(at, next, exc) ==
  /\ pc = at
  /\ \E ok \in BOOLEAN :
       /\ calls' = Append(calls, Call("cursor", ok))
       /\ IF ok THEN cur' = "open" /\ pc' = next
                ELSE pc' = exc /\ UNCHANGED cur
  /\ UNCHANGED <<store, mode, locals, conn, openConns, outcome>>

\* cur.close()
CurClose(at, next, exc) ==
  /\ pc = at
  /\ \E ok \in BOOLEAN :
       /\ calls' = Append(calls, Call("cur.close", ok))
       /\ IF ok THEN cur' = "closed" /\ pc' = next
                ELSE pc' = exc /\ UNCHANGED cur
  /\ UNCHANGED <<store, mode, locals, conn, openConns, outcome>>

\* conn.close(); a close that raises may or may not have released the connection
ConnClose(at, next, exc) ==
  /\ pc = at
  /\ \E ok \in BOOLEAN, released \in BOOLEAN :
       /\ ok => released
       /\ calls' = Append(calls, Call("conn.close", ok))
       /\ IF released THEN conn' = "closed" /\ openConns' = openConns - 1
                      ELSE UNCHANGED <<conn, openConns>>
       /\ pc' = IF ok THEN next ELSE exc
  /\ UNCHANGED <<store, mode, locals, cur, outcome>>

\* ------------------------------------------------------------- index()
\* query = request.args.get('q', '').strip(); images = []; if query:
IndexStart ==
  /\ pc = "idle"
  /\ openConns < MaxLeaked
  /\ \E raw \in Texts(MaxLen) :
       /\ q' = raw
       /\ query' = Strip(raw)
       /\ pc' = IF Truthy(Strip(raw)) THEN "i_encode" ELSE "i_render"
  /\ mode' = "text"
  /\ images' = <<>>
  /\ UNCHANGED <<store, file_name, text_embedding, embedding_list, row, embedding,
                 curRows, results, conn, cur, openConns, calls, outcome>>

\* text_embedding = clip.text_encoder(query)   (outside the try block)
IndexEncode ==
  /\ pc = "i_encode"
  /\ \/ /\ calls' = Append(calls, Call("encode", FALSE))
        /\ outcome' = "raised" /\ pc' = "done"
        /\ UNCHANGED text_embedding
     \/ \E v \in QueryVectors \cup {None} :
          /\ calls' = Append(calls, Call("encode", TRUE))
          /\ text_embedding' = v
          /\ pc' = "i_tolist"
          /\ UNCHANGED outcome
  /\ UNCHANGED <<store, mode, q, query, file_name, embedding_list, row, embedding,
                 curRows, results, images, conn, cur, openConns>>

\* embedding_list = text_embedding.tolist() if hasattr(...) else list(text_embedding)
IndexToList ==
  /\ pc = "i_tolist"
  /\ IF text_embedding = None
     THEN outcome' = "raised" /\ pc' = "done" /\ UNCHANGED embedding_list
     ELSE embedding_list' = text_embedding /\ pc' = "i_connect" /\ UNCHANGED outcome
  /\ UNCHANGED <<store, mode, q, query, file_name, text_embedding, row, embedding,
                 curRows, results, images, conn, cur, openConns, calls>>

IndexConnect == Connect("i_connect", "i_cursor", "i_except")

IndexCursor == Cursor("i_cursor", "i_execute", "i_except")

\* cur.execute(sql, (embedding_list,))
IndexExecute ==
  /\ pc = "i_execute"
  /\ \/ /\ calls' = Append(calls, Call("nearest", FALSE))
        /\ pc' = "i_except"
        /\ UNCHANGED curRows
     \/ \E tie \in {"asc", "desc"} :
          /\ calls' = Append(calls, Call("nearest", TRUE))
          /\ curRows' = IndexSQL(store, embedding_list, tie)
          /\ pc' = "i_fetchall"
  /\ UNCHANGED <<store, mode, q, query, file_name, text_embedding, embedding_list, row,
                 embedding, results, images, conn, cur, openConns, outcome>>

\* results = cur.fetchall(); images = [row[0] for row in results]
IndexFetchall ==
  /\ pc = "i_fetchall"
  /\ \/ /\ calls' = Append(calls, Call("fetchall", FALSE))
        /\ pc' = "i_except"
        /\ UNCHANGED <<results, images>>
     \/ /\ calls' = Append(calls, Call("fetchall", TRUE))
        /\ results' = curRows
        /\ images' = FirstColumn(curRows)
        /\ pc' = "i_curclose"
  /\ UNCHANGED <<store, mode, q, query, file_name, text_embedding, embedding_list, row,
                 embedding, curRows, conn, cur, openConns, outcome>>

IndexCurClose == CurClose("i_curclose", "i_connclose", "i_except")

IndexConnClose == ConnClose("i_connclose", "i_render", "i_except")

\* except Exception as e: images = []
IndexExceptMut ==
  /\ pc = "i_except"
  /\ outcome' = "raised"
  /\ pc' = "done"
  /\ UNCHANGED <<store, mode, locals, conn, cur, openConns, calls>>
IndexExcept ==
  /\ pc = "i_except"
  /\ images' = <<>>
  /\ pc' = "i_render"
  /\ UNCHANGED <<store, mode, q, query, file_name, text_embedding, embedding_list, row,
                 embedding, curRows, results, conn, cur, openConns, calls, outcome>>

\* return render_template_string(HTML_TEMPLATE, images=images, query=query)
IndexRender ==
  /\ pc = "i_render"
  /\ outcome' = "returned"
  /\ pc' = "done"
  /\ UNCHANGED <<store, mode, locals, conn, cur, openConns, calls>>

\* ------------------------------------------------- neighbors(file_name)
\* embedding = None
NeighborsStart ==
  /\ pc = "idle"
  /\ openConns < MaxLeaked
  /\ \E name \in ExemplarNames : file_name' = name
  /\ mode' = "exemplar"
  /\ embedding' = None
  /\ pc' = "n1_connect"
  /\ UNCHANGED <<store, q, query, text_embedding, embedding_list, row, curRows, results,
                 images, conn, cur, openConns, calls, outcome>>

LookupConnect == Connect("n1_connect", "n1_cursor", "n1_except")

LookupCursor == Cursor("n1_cursor", "n1_execute", "n1_except")

\* cur.execute("SELECT embedding FROM image_embeddings WHERE file_name = %s LIMIT 1;", ...)
LookupExecute ==
  /\ pc = "n1_execute"
  /\ \/ /\ calls' = Append(calls, Call("lookup", FALSE))
        /\ pc' = "n1_except"
        /\ UNCHANGED curRows
     \/ /\ calls' = Append(calls, Call("lookup", TRUE))
        /\ IF LookupSQL(store, file_name) = {}
           THEN curRows' = <<>>
           ELSE \E r \in LookupSQL(store, file_name) : curRows' = <<r>>
        /\ pc' = "n1_fetchone"
  /\ UNCHANGED <<store, mode, q, query, file_name, text_embedding, embedding_list, row,
                 embedding, results, images, conn, cur, openConns, outcome>>

\* row = cur.fetchone(); if row: embedding = row[0]
LookupFetchone ==
  /\ pc = "n1_fetchone"
  /\ \/ /\ calls' = Append(calls, Call("fetchone", FALSE))
        /\ pc' = "n1_except"
        /\ UNCHANGED <<row, embedding>>
     \/ /\ calls' = Append(calls, Call("fetchone", TRUE))
        /\ row' = IF curRows = <<>> THEN None ELSE curRows[1]
        /\ embedding' = IF curRows = <<>> THEN embedding ELSE curRows[1][1]
        /\ pc' = "n1_curclose"
  /\ UNCHANGED <<store, mode, q, query, file_name, text_embedding, embedding_list,
                 curRows, results, images, conn, cur, openConns, outcome>>

LookupCurClose == CurClose("n1_curclose", "n1_connclose", "n1_except")

LookupConnClose == ConnClose("n1_connclose", "n_check", "n1_except")

\* except Exception as e: embedding = None
LookupExceptMut ==
  /\ pc = "n1_except"
  /\ pc' = "n_check"
  /\ UNCHANGED <<store, mode, locals, conn, cur, openConns, calls, outcome>>
LookupExcept ==
  /\ pc = "n1_except"
  /\ embedding' = None
  /\ pc' = "n_check"
  /\ UNCHANGED <<store, mode, q, query, file_name, text_embedding, embedding_list, row,
                 curRows, results, images, conn, cur, openConns, calls, outcome>>

\* images = []; if embedding:
NeighborsCheck ==
  /\ pc = "n_check"
  /\ images' = <<>>
  /\ pc' = IF Truthy(embedding) THEN "n2_connect" ELSE "n_render"
  /\ UNCHANGED <<store, mode, q, query, file_name, text_embedding, embedding_list, row,
                 embedding, curRows, results, conn, cur, openConns, calls, outcome>>

NeighborsConnect == Connect("n2_connect", "n2_cursor", "n2_except")

NeighborsCursor == Cursor("n2_cursor", "n2_execute", "n2_except")

\* cur.execute(sql, (embedding, file_name))
NeighborsExecute ==
  /\ pc = "n2_execute"
  /\ \/ /\ calls' = Append(calls, Call("nearest", FALSE))
        /\ pc' = "n2_except"
        /\ UNCHANGED curRows
     \/ \E tie \in {"asc", "desc"} :
          /\ calls' = Append(calls, Call("nearest", TRUE))
          /\ curRows' = NeighborsSQL(store, embedding, file_name, tie)
          /\ pc' = "n2_fetchall"
  /\ UNCHANGED <<store, mode, q, query, file_name, text_embedding, embedding_list, row,
                 embedding, results, images, conn, cur, openConns, outcome>>

\* results = cur.fetchall(); images = [row[0] for row in results]
NeighborsFetchall ==
  /\ pc = "n2_fetchall"
  /\ \/ /\ calls' = Append(calls, Call("fetchall", FALSE))
        /\ pc' = "n2_except"
        /\ UNCHANGED <<results, images>>
     \/ /\ calls' = Append(calls, Call("fetchall", TRUE))
        /\ results' = curRows
        /\ images' = FirstColumn(curRows)
        /\ pc' = "n2_curclose"
  /\ UNCHANGED <<store, mode, q, query, file_name, text_embedding, embedding_list, row,
                 embedding, curRows, conn, cur, openConns, outcome>>

NeighborsCurClose == CurClose("n2_curclose", "n2_connclose", "n2_except")

NeighborsConnClose == ConnClose("n2_connclose", "n_render", "n2_except")

\* except Exception as e: images = []
NeighborsExcept ==
  /\ pc = "n2_except"
  /\ images' = <<>>
  /\ pc' = "n_render"
  /\ UNCHANGED <<store, mode, q, query, file_name, text_embedding, embedding_list, row,
                 embedding, curRows, results, conn, cur, openConns, calls, outcome>>

\* return render_template_string(HTML_TEMPLATE, images=images, query=None)
NeighborsRender ==
  /\ pc = "n_render"
  /\ outcome' = "returned"
  /\ pc' = "done"
  /\ UNCHANGED <<store, mode, locals, conn, cur, openConns, calls>>

\* the request is over: its locals are gone, the connections it left open remain
Finish ==
  /\ pc = "done"
  /\ pc' = "idle"
  /\ mode' = "none"
  /\ q' = None /\ query' = None /\ file_name' = 0
  /\ text_embedding' = None /\ embedding_list' = None
  /\ row' = None /\ embedding' = None
  /\ curRows' = <<>> /\ results' = <<>> /\ images' = <<>>
  /\ conn' = "unbound" /\ cur' = "unbound"
  /\ calls' = <<>>
  /\ outcome' = "pending"
  /\ UNCHANGED <<store, openConns>>

Next ==
  \/ IndexStart \/ IndexEncode \/ IndexToList \/ IndexConnect \/ IndexCursor
  \/ IndexExecute \/ IndexFetchall \/ IndexCurClose \/ IndexConnClose
  \/ IndexExcept \/ IndexRender
  \/ NeighborsStart \/ LookupConnect \/ LookupCursor \/ LookupExecute
  \/ LookupFetchone \/ LookupCurClose \/ LookupConnClose \/ LookupExcept
  \/ NeighborsCheck \/ NeighborsConnect \/ NeighborsCursor \/ NeighborsExecute
  \/ NeighborsFetchall \/ NeighborsCurClose \/ NeighborsConnClose
  \/ NeighborsExcept \/ NeighborsRender
  \/ Finish

Spec == Init /\ [][Next]_vars

TypeOK ==
  /\ pc \in {"idle", "done", "i_encode", "i_tolist", "i_connect", "i_cursor",
             "i_execute", "i_fetchall", "i_curclose", "i_connclose", "i_except",
             "i_render", "n1_connect", "n1_cursor", "n1_execute", "n1_fetchone",
             "n1_curclose", "n1_connclose", "n1_except", "n_check", "n2_connect",
             "n2_cursor", "n2_execute", "n2_fetchall", "n2_curclose",
             "n2_connclose", "n2_except", "n_render"}
  /\ outcome \in {"pending", "returned", "raised"}
  /\ openConns \in Nat
\* ------------------------------------------------------------ properties
StoreOps == {"connect", "cursor", "lookup", "nearest", "fetchone", "fetchall",
             "cur.close", "conn.close"}

Made(op) == \E k \in 1..Len(calls) : calls[k].op = op

FailedIn(ops) == \E k \in 1..Len(calls) : calls[k].op \in ops /\ ~calls[k].ok

NoCallFailed == \A k \in 1..Len(calls) : calls[k].ok

Count(op) == Cardinality({k \in 1..Len(calls) : calls[k].op = op})

Stored(name) == \E i \in 1..Len(store) : store[i].file_name = name

Eligible == {i \in 1..Len(store) : mode = "text" \/ store[i].file_name # file_name}

\* C1: a request in which any store call failed (connect, cursor, lookup,
\* nearest-neighbour query, fetch or close) ends by returning normally with an
\* empty result list; it never ends by raising.
C1_StoreFailureGivesEmptyResult ==
  (pc = "done" /\ FailedIn(StoreOps)) => (outcome = "returned" /\ images = <<>>)

C1_Witness ==
  /\ pc = "done" /\ mode = "exemplar" /\ FailedIn({"cur.close", "conn.close"})
  /\ results # <<>> /\ images = <<>> /\ outcome = "returned"

\* C2: a text request with non-empty trimmed text whose encoder call raised or
\* returned no vector ends by returning normally with an empty result list.
C2_EncoderFailureGivesEmptyResult ==
  (pc = "done" /\ mode = "text" /\ Truthy(query)
     /\ (FailedIn({"encode"}) \/ (Made("encode") /\ text_embedding = None)))
  => (outcome = "returned" /\ images = <<>>)

\* C3: when a request has ended, and between requests, no store connection is
\* open.
C3_NoConnectionLeftOpen ==
  pc \in {"done", "idle"} => openConns = 0

\* C4: an exemplar request on identifier X never has X in its result list; a
\* text request leaves an identifier of the store out of its result list only
\* when the list is full and the identifier's row is no nearer than the last
\* row returned.
C4_ExemplarExcludedTextNotExcluded ==
  /\ mode = "exemplar" => \A p \in 1..Len(images) : images[p] # file_name
  /\ (pc = "done" /\ mode = "text" /\ Made("nearest") /\ NoCallFailed) =>
        \A i \in 1..Len(store) :
          (\A p \in 1..Len(images) : images[p] # store[i].file_name) =>
             /\ Len(images) = LIMIT
             /\ Distance(store[i].embedding, embedding_list) >= results[LIMIT][2]

C4_Witness ==
  /\ pc = "done" /\ mode = "exemplar" /\ Stored(file_name)
  /\ NoCallFailed /\ Len(images) >= 2

\* C5: when no call failed and the query vector was resolved, the result list
\* has exactly min(30, number of eligible rows) identifiers, the eligible rows
\* being all rows for a text request and all rows whose identifier is not the
\* exemplar for an exemplar request; the result list never has more than 30.
C5_ExactlyMinCapEligible ==
  /\ Len(images) <= LIMIT
  /\ (pc = "done" /\ Made("nearest") /\ NoCallFailed) =>
        Len(images) = IF Cardinality(Eligible) < LIMIT THEN Cardinality(Eligible) ELSE LIMIT

C5_Witness ==
  /\ pc = "done" /\ Made("nearest") /\ NoCallFailed
  /\ Cardinality(Eligible) > LIMIT /\ Len(images) = LIMIT

\* C6: the result list of a request never holds the same identifier twice.
C6_NoDuplicateIdentifier ==
  \A p, r \in 1..Len(images) : p # r => images[p] # images[r]

\* C7: a text request whose text is empty or only whitespace returns an empty
\* result list and makes no call to the encoder or to the store.
C7_BlankTextShortCircuits ==
  (mode = "text" /\ \A k \in 1..Len(q) : q[k] = " ") =>
     /\ calls = <<>> /\ conn = "unbound"
     /\ outcome # "raised"
     /\ images = <<>>

C7_Witness ==
  pc = "done" /\ mode = "text" /\ q = <<" ", " ">> /\ outcome = "returned"

\* C8: on a request that succeeded, the result list is the identifier column
\* of the rows the store returned, in the same order and of the same length,
\* and the distances the store reported for them are non-decreasing.
C8_StoreOrderKept ==
  (pc = "done" /\ Made("nearest") /\ NoCallFailed) =>
     /\ results = curRows
     /\ Len(images) = Len(results)
     /\ \A p \in 1..Len(results) : images[p] = results[p][1]
     /\ \A p, r \in 1..Len(results) : p < r => results[p][2] <= results[r][2]

C8_Witness ==
  /\ pc = "done" /\ Made("nearest") /\ NoCallFailed
  /\ Len(results) >= 3 /\ results[1][2] < results[Len(results)][2]

\* C9: within one request the encoder, the embedding lookup and the
\* nearest-neighbour query are each called at most once, and no call follows
\* a call that failed.
C9_NoRetryNoCallAfterFailure ==
  /\ Count("encode") <= 1 /\ Count("lookup") <= 1 /\ Count("nearest") <= 1
  /\ \A k \in 1..Len(calls) : ~calls[k].ok => k = Len(calls)

C9_Witness ==
  /\ pc = "done" /\ mode = "exemplar" /\ Truthy(row)
  /\ FailedIn({"cur.close"}) /\ ~Made("nearest")

\* C10: an exemplar request on an identifier with no row in the store returns
\* an empty result list and never issues the nearest-neighbour query.
C10_AbsentExemplarGivesEmptyResult ==
  (mode = "exemplar" /\ ~Stored(file_name)) =>
     /\ ~Made("nearest")
     /\ images = <<>>
     /\ outcome # "raised"
     /\ pc = "done" => outcome = "returned"

C10_Witness ==
  /\ pc = "done" /\ mode = "exemplar" /\ ~Stored(file_name) /\ Len(store) > 0
  /\ Made("lookup") /\ NoCallFailed /\ outcome = "returned"
====
